---- MODULE Spec2Model ----
(***************************************************************************)
(* The five Toggle components of adv-react-patterns as one state machine.  *)
(*                                                                         *)
(*   "init"        state initializers          (unnamed/part_000, 1-90)    *)
(*   "hoc"         higher order components     (unnamed/part_000, 92-195)  *)
(*   "compound"    flexible compound components (unnamed/part_001)         *)
(*   "provider"    the provider pattern        (src/exercises/11.js)       *)
(*   "collections" prop collections            (src/exercises/05.js)       *)
(*                                                                         *)
(* One Toggle instance is mounted.  setState(updater, callback) puts the   *)
(* updater on the instance's update queue; when the event handler that     *)
(* made the calls returns, the queue is processed: every updater is        *)
(* applied in order to the work-in-progress state, the result is assigned  *)
(* to this.state and rendered, and then the callbacks run in order.        *)
(*                                                                         *)
(* An optional JavaScript value is a set: {} is undefined, {v} is v.       *)
(***************************************************************************)
EXTENDS Integers, Sequences, FiniteSets, TLC

\* Bounds of the model.
MaxCalls == 3    \* toggle() / reset() calls in one behaviour
MaxDepth == 2    \* ancestors between a consumer and the root

Absent == {}
Some(v) == {v}
The(opt) == CHOOSE v \in opt : TRUE

Variants == {"init", "hoc", "compound", "provider", "collections"}
\* the variants that create a context (React.createContext)
Ambient == {"hoc", "compound", "provider"}

VARIABLES
    variant,      \* which of the five Toggle classes is mounted
    on,           \* this.state.on
    work,         \* `on` of the work-in-progress state while the queue is processed
    initialState, \* this.initialState ("init" and "provider" variants)
    initialOn,    \* this.props.initialOn, as the parent passes it now
    valueProp,    \* a prop named `value` passed to Toggle (optional)
    childArgs,    \* what the render-prop child passes to getTogglerProps
    queue,        \* pending setState updates, oldest first
    cbs,          \* setState callbacks of the updates applied in this flush
    phase,        \* "idle" | "handler" | "render" | "commit"
    calls,        \* log: every toggle() / reset() call, in order
    flips,        \* log: every applied update with the value it produced
    notes,        \* log: every props.onToggle / props.onReset invocation
    lastApplied,  \* kind of the update applied last ("none" before any)
    ui,           \* what the last render put on the Switch and the labels
    clicked,      \* the functions the last click on the Switch invoked, in order
    clicks,       \* number of clicks on the Switch so far
    consumed,     \* result of the last consumer rendered at an arbitrary place
    ctorInitialOn \* props.initialOn at construction (history variable)

vars == <<variant, on, work, initialState, initialOn, valueProp, childArgs,
          queue, cbs, phase, calls, flips, notes, lastApplied, ui, clicked,
          clicks, consumed, ctorInitialOn>>

(***************************************************************************)
(* Pure parts.                                                             *)
(***************************************************************************)

\* const callAll = (...fns) => (...args) => fns.forEach(fn => fn && fn(...args))
\* fns is a sequence of optional functions; the result is the sequence of
\* functions one invocation of the returned function calls, in order.
RECURSIVE callAll_Reversed(_)
callAll_Reversed(fns) ==
    IF fns = <<>> THEN <<>>
    ELSE callAll_Reversed(Tail(fns)) \o
         (IF Head(fns) = Absent THEN <<>> ELSE <<The(Head(fns))>>)

RECURSIVE callAll(_)
callAll(fns) ==
    IF fns = <<>> THEN <<>>
    ELSE (IF Head(fns) = Absent THEN <<>> ELSE <<The(Head(fns))>>) \o
         callAll(Tail(fns))

\* ({on}) => ({on: !on})
ToggleUpdater_Stale(prev) == ~on

ToggleUpdater(prev) == ~prev

\* () => (this.initialState)
ResetUpdater_FromProps(prev) == initialOn

ResetUpdater(prev) == initialState.on

\* this.state of the variants that keep toggle in the state
StateValue == [on |-> on, toggle |-> "toggle"]

\* part_001 render: <ToggleContext.Provider value={{on: this.state.on, toggle: this.toggle}}>
ProviderValueCompound == Some([on |-> on, toggle |-> "toggle"])

\* 11.js render: <ToggleContext.Provider value={this.state} {...rest}>
\* A later spread prop named `value` replaces the earlier `value`.
ProviderValue11 == IF valueProp # Absent THEN valueProp ELSE Some(StateValue)

\* part_000 render: <ToggleContext.Provider value={this.state} {...this.props} />
ProviderValueHoc == IF valueProp # Absent THEN valueProp ELSE Some(StateValue)

\* The value the mounted Toggle's provider supplies.
ProviderValue ==
    CASE variant = "compound" -> ProviderValueCompound
      [] variant = "provider" -> ProviderValue11
      [] variant = "hoc"      -> ProviderValueHoc
      [] OTHER                -> Absent

\* React.createContext(): no default value
DefaultValue == Absent

\* The context value at a place whose ancestors, nearest first, are path:
\* the value of the nearest provider, the default when there is none.
RECURSIVE Lookup(_)
Lookup(path) ==
    IF path = <<>> THEN DefaultValue
    ELSE IF Head(path) = "toggle" THEN ProviderValue
    ELSE Lookup(Tail(path))

\* function ToggleConsumer (part_001, 11.js): throws when the context is falsy,
\* otherwise calls props.children(context).  args is the sequence of values
\* the child function was called with.
ToggleConsumer(context) ==
    IF context = Absent
    THEN [threw |-> TRUE,  args |-> <<>>]
    ELSE [threw |-> FALSE, args |-> <<context>>]

\* static Consumer = ToggleContext.Consumer (part_000): the child function is
\* called with whatever the context holds; Wrapper passes it on as `toggle`.
RawConsumer(context) == [threw |-> FALSE, args |-> <<context>>]

Consumer(context) ==
    IF variant = "hoc" THEN RawConsumer(context) ELSE ToggleConsumer(context)

\* getTogglerProps = ({onClick, ...props} = {}) =>
\*   ({'aria-pressed': this.state.on, onClick: callAll(onClick, this.toggle), ...props})
\* args = [onClick: optional function, ariaPressed: optional boolean (in props)]
getTogglerProps(args) ==
    [ariaPressed |-> IF args.ariaPressed # Absent THEN args.ariaPressed ELSE Some(on),
     onClick     |-> callAll(<<args.onClick, Some("toggle")>>)]

\* What Toggle.render hands to this.props.children in 05.js: {on, toggle}.
\* There is no togglerProps key.
RenderArgs05 == [on |-> on, toggle |-> "toggle", togglerProps |-> Absent]

NoUi == [on |-> Absent, ariaPressed |-> Absent, ariaExpanded |-> Absent,
         onClick |-> <<>>, onShown |-> FALSE, offShown |-> FALSE, threw |-> FALSE]

\* Usage of each variant, rendered against the current state: the props that
\* reach the Switch, and which of the on / off texts is shown.
\* The ancestors of the Switch: Layer3, Layer2, Layer1 beneath Toggle in
\* part_000; the div beneath Toggle in part_001 and 11.js.
UsagePath ==
    IF variant = "hoc" THEN <<"layer", "layer", "layer", "toggle">>
    ELSE <<"layer", "toggle">>

RenderConsumerUi ==
    LET r == Consumer(Lookup(UsagePath)) IN
    IF r.threw \/ r.args[1] = Absent
    THEN [NoUi EXCEPT !.threw = TRUE]
    ELSE LET c == The(r.args[1]) IN
         [NoUi EXCEPT !.on = Some(c.on), !.onClick = <<c.toggle>>,
                      !.onShown = c.on, !.offShown = ~c.on]

Render ==
    CASE variant = "init" ->
            LET p == getTogglerProps(childArgs) IN
            [NoUi EXCEPT !.on = Some(on), !.ariaPressed = p.ariaPressed,
                         !.onClick = p.onClick]
      [] variant = "collections" ->
            LET a == RenderArgs05 IN
            [NoUi EXCEPT !.on = Some(a.on),
                         !.ariaExpanded = IF a.togglerProps = Absent THEN Absent
                                          ELSE Some(The(a.togglerProps).ariaExpanded),
                         !.onClick = IF a.togglerProps = Absent THEN <<>>
                                     ELSE <<The(a.togglerProps).onClick>>,
                         !.onShown = a.on, !.offShown = ~a.on]
      [] OTHER -> RenderConsumerUi


(***************************************************************************)
(* The state after construction and the first render.                      *)
(***************************************************************************)

ChildArgs == [onClick : {Absent, Some("userClick")},
              ariaPressed : {Absent, Some(TRUE), Some(FALSE)}]

\* Usage (part_000, 79): getTogglerProps({on})
UsageChildArgs == [onClick |-> Absent, ariaPressed |-> Absent]

\* a value some caller passes as the prop `value`
ForeignValues == {[on |-> b, toggle |-> "other"] : b \in BOOLEAN}

Init ==
    /\ variant \in Variants
    /\ initialOn \in (IF variant = "init" THEN BOOLEAN ELSE {FALSE})
    /\ ctorInitialOn = initialOn
    /\ initialState = [on |-> initialOn]
    /\ on = initialState.on
    /\ work = on
    /\ valueProp \in (IF variant \in Ambient
                      THEN {Absent} \cup {Some(v) : v \in ForeignValues}
                      ELSE {Absent})
    /\ childArgs \in (IF variant = "init" THEN ChildArgs ELSE {UsageChildArgs})
    /\ queue = <<>>
    /\ cbs = <<>>
    /\ phase = "idle"
    /\ calls = <<>>
    /\ flips = <<>>
    /\ notes = <<>>
    /\ lastApplied = "none"
    /\ ui = Render
    /\ clicked = <<>>
    /\ clicks = 0
    /\ consumed = [rendered |-> FALSE, path |-> <<>>, threw |-> FALSE, args |-> <<>>]

(***************************************************************************)
(* Operations.                                                             *)
(***************************************************************************)

\* toggle = () => this.setState(({on}) => ({on: !on}), () => this.props.onToggle(this.state.on))
\* called from an event handler, which may make further calls before it returns
toggle ==
    /\ phase \in {"idle", "handler"}
    /\ Len(calls) < MaxCalls
    /\ queue' = Append(queue, "toggle")
    /\ calls' = Append(calls, "toggle")
    /\ phase' = "handler"
    /\ UNCHANGED <<variant, on, work, initialState, initialOn, valueProp, childArgs,
                   cbs, flips, notes, lastApplied, ui, clicked, consumed, clicks, ctorInitialOn>>

\* reset = () => this.setState(() => this.initialState, () => this.props.onReset(this.state.on))
reset ==
    /\ variant = "init"
    /\ phase \in {"idle", "handler"}
    /\ Len(calls) < MaxCalls
    /\ queue' = Append(queue, "reset")
    /\ calls' = Append(calls, "reset")
    /\ phase' = "handler"
    /\ UNCHANGED <<variant, on, work, initialState, initialOn, valueProp, childArgs,
                   cbs, flips, notes, lastApplied, ui, clicked, consumed, clicks, ctorInitialOn>>

\* the event handler returns: the batched updates are processed
EndHandler ==
    /\ phase = "handler"
    /\ phase' = "render"
    /\ UNCHANGED <<variant, on, work, initialState, initialOn, valueProp, childArgs,
                   queue, cbs, calls, flips, notes, lastApplied, ui, clicked,
                   consumed, clicks, ctorInitialOn>>

\* A click on the Switch the Usage rendered: its onClick runs, and the
\* updates it queued are processed when it returns.
Click ==
    LET fns == ui.onClick
        tg  == SelectSeq(fns, LAMBDA f : f = "toggle")
    IN  /\ phase = "idle"
        /\ ~ui.threw
        /\ clicks < MaxCalls
        /\ Len(calls) + Len(tg) <= MaxCalls
        /\ clicked' = fns
        /\ clicks' = clicks + 1
        /\ queue' = queue \o tg
        /\ calls' = calls \o tg
        /\ phase' = IF tg = <<>> THEN "idle" ELSE "render"
        /\ UNCHANGED <<variant, on, work, initialState, initialOn, valueProp,
                       childArgs, cbs, flips, notes, lastApplied, ui, consumed,
                       ctorInitialOn>>

Elems == {"layer", "toggle"}
Paths == UNION {[1..n -> Elems] : n \in 0..MaxDepth}

\* The result of rendering a consumer at a place whose ancestors are path.
RenderAt(path) ==
    LET r == Consumer(Lookup(path)) IN
    [rendered |-> TRUE, path |-> path, threw |-> r.threw, args |-> r.args]

\* One queued updater is applied to the work-in-progress state.
ApplyUpdate ==
    /\ phase = "render"
    /\ queue # <<>>
    /\ work' = IF Head(queue) = "toggle" THEN ToggleUpdater(work) ELSE ResetUpdater(work)
    /\ queue' = Tail(queue)
    /\ cbs' = Append(cbs, Head(queue))
    /\ flips' = Append(flips, [kind |-> Head(queue), val |-> work'])
    /\ lastApplied' = Head(queue)
    /\ UNCHANGED <<variant, on, initialState, initialOn, valueProp, childArgs, phase,
                   calls, notes, ui, clicked, consumed, clicks, ctorInitialOn>>

\* The queue is empty: the result becomes this.state, render() runs and the
\* consumers beneath are rendered again.
Commit ==
    /\ phase = "render"
    /\ queue = <<>>
    /\ on' = work
    /\ UNCHANGED <<variant, work, initialState, initialOn, valueProp, childArgs,
                   queue, cbs, calls, flips, notes, lastApplied, clicked,
                   clicks, ctorInitialOn>>
    /\ ui' = Render'
    /\ \E p \in {consumed.path} :
          consumed' = IF consumed.rendered THEN RenderAt(p)' ELSE consumed
    /\ phase' = "commit"

\* () => this.props.onToggle(this.state.on)
ToggleCallback == [kind |-> "onToggle", arg |-> on]

\* () => this.props.onReset(this.state.on)
ResetCallback == [kind |-> "onReset", arg |-> on]

\* The next setState callback runs.
RunCallback ==
    /\ phase = "commit"
    /\ cbs # <<>>
    /\ notes' = Append(notes, IF Head(cbs) = "toggle" THEN ToggleCallback ELSE ResetCallback)
    /\ cbs' = Tail(cbs)
    /\ phase' = IF cbs' = <<>> THEN "idle" ELSE "commit"
    /\ UNCHANGED <<variant, on, work, initialState, initialOn, valueProp, childArgs,
                   queue, calls, flips, lastApplied, ui, clicked, consumed,
                   clicks, ctorInitialOn>>

\* The parent renders Toggle again with another initialOn; the instance is
\* kept, so the field initializers do not run again.
SetInitialOn_Sync ==
    /\ variant = "init"
    /\ phase = "idle"
    /\ initialOn' = ~initialOn
    /\ on' = initialOn'
    /\ work' = on'
    /\ UNCHANGED <<variant, initialState, valueProp, childArgs, queue, cbs,
                   phase, calls, flips, notes, lastApplied, clicked, consumed,
                   clicks, ctorInitialOn>>
    /\ ui' = Render'

SetInitialOn ==
    /\ variant = "init"
    /\ phase = "idle"
    /\ initialOn' = ~initialOn
    /\ UNCHANGED <<variant, on, work, initialState, valueProp, childArgs, queue, cbs,
                   phase, calls, flips, notes, lastApplied, clicked, consumed,
                   clicks, ctorInitialOn>>
    /\ ui' = Render'


\* A consumer (Toggle.Consumer, Toggle.On / Off / Button, a withToggle
\* Wrapper) is rendered at a place whose ancestors are path.
RenderConsumer ==
    /\ variant \in Ambient
    /\ phase = "idle"
    /\ \E path \in Paths : consumed' = RenderAt(path)
    /\ UNCHANGED <<variant, on, work, initialState, initialOn, valueProp, childArgs,
                   queue, cbs, phase, calls, flips, notes, lastApplied, ui, clicked,
                   clicks, ctorInitialOn>>

Next ==
    \/ toggle
    \/ reset
    \/ EndHandler
    \/ Click
    \/ ApplyUpdate
    \/ Commit
    \/ RunCallback
    \/ SetInitialOn
    \/ RenderConsumer

Spec == Init /\ [][Next]_vars


(***************************************************************************)
(* Properties.                                                             *)
(***************************************************************************)

Count(seq, k) == Len(SelectSeq(seq, LAMBDA x : x = k))
NotesOf(k) == SelectSeq(notes, LAMBDA n : n.kind = k)
FlipsOf(k) == SelectSeq(flips, LAMBDA f : f.kind = k)
Range(seq) == {seq[i] : i \in 1..Len(seq)}

\* C1: once every queued update is applied, k calls of toggle() (and no
\* reset) leave `on` at its original value when k is even and at the
\* negation when k is odd, in every variant and however the calls were batched.
C1_ParityOfFlips ==
    (phase = "idle" /\ Count(calls, "reset") = 0)
        => on = (IF Len(calls) % 2 = 0 THEN initialState.on ELSE ~initialState.on)

\* two toggle() calls were applied in one batch (both callbacks ran after
\* both updaters) and the flag is back at its original value
C1_Witness ==
    /\ phase = "idle"
    /\ calls = <<"toggle", "toggle">>
    /\ Len(notes) = 2
    /\ flips[1].val # flips[2].val
    /\ notes[1].arg = notes[2].arg
    /\ on = initialState.on

\* C2: in the state-initializer Toggle, once reset() is applied the flag
\* equals the initialOn prop of construction time, whatever toggle() and
\* reset() calls came before and whatever initialOn is now.
C2_ResetRestoresInitial ==
    lastApplied = "reset"
        => /\ work = ctorInitialOn
           /\ (phase \in {"commit", "idle"} => on = ctorInitialOn)

\* a reset applied after a toggle, while the prop differs from the captured one
C2_Witness ==
    /\ variant = "init"
    /\ phase = "idle"
    /\ lastApplied = "reset"
    /\ calls = <<"toggle", "reset">>
    /\ flips[1].val # ctorInitialOn
    /\ initialOn # ctorInitialOn
    /\ on = ctorInitialOn

\* C3: props.onToggle is invoked exactly once per toggle() call, and the
\* argument of the i-th invocation is the value the flag had right after
\* the i-th flip was applied.
C3_NotifyPostFlipValue ==
    /\ phase = "idle" => Len(NotesOf("onToggle")) = Count(calls, "toggle")
    /\ Len(NotesOf("onToggle")) <= Len(FlipsOf("toggle"))
    /\ \A i \in 1..Len(NotesOf("onToggle")) :
          NotesOf("onToggle")[i].arg = FlipsOf("toggle")[i].val

\* C4: in the state-initializer Toggle, props.onReset is invoked exactly
\* once per reset() call with the restored initial value, a reset never
\* invokes props.onToggle and a toggle never props.onReset.
C4_ResetNotifiesInitial ==
    variant = "init" =>
        /\ phase = "idle" =>
              /\ Len(NotesOf("onReset")) = Count(calls, "reset")
              /\ Len(NotesOf("onToggle")) = Count(calls, "toggle")
        /\ \A i \in 1..Len(NotesOf("onReset")) :
              NotesOf("onReset")[i].arg = ctorInitialOn

\* C5: a consumer rendered with no Toggle above it throws, and its child
\* function / wrapped component is never called with an absent value, in
\* every variant that has a context.
C5_OutsideConsumerThrows ==
    (consumed.rendered /\ "toggle" \notin Range(consumed.path))
        => /\ consumed.threw
           /\ consumed.args = <<>>

\* C6: in the prop-collections Toggle the Switch gets togglerProps whose
\* aria-expanded is the current `on` and whose onClick is toggle, so a
\* click flips the flag.
C6_TogglerPropsBundle ==
    variant = "collections" =>
        /\ RenderArgs05.togglerProps # Absent
        /\ ui.ariaExpanded = Some(on)
        /\ ui.onClick = <<"toggle">>

\* C7: in the compound-component variants exactly one of Toggle.On and
\* Toggle.Off renders its children (On iff `on`), Toggle.Button shows the
\* same `on`, and its click handler is the toggle of the enclosing Toggle.
C7_CompoundShowsState ==
    variant \in {"compound", "provider"} =>
        /\ ~ui.threw
        /\ ui.onShown = on
        /\ ui.offShown = ~on
        /\ ui.on = Some(on)
        /\ ui.onClick = <<"toggle">>

\* C8: `on` is always a boolean and changes only in the step that commits
\* applied flips / resets; rendering, getTogglerProps, consuming the
\* context and the onToggle / onReset notifications leave it unchanged.
C8_FlagFrame ==
    /\ [](on \in BOOLEAN /\ work \in BOOLEAN)
    /\ [][ /\ on' # on => (phase = "render" /\ phase' = "commit" /\ cbs # <<>>)
           /\ work' # work => (phase = "render" /\ queue # <<>> /\ queue' = Tail(queue))
         ]_vars

\* the flag was flipped while a consumer was rendered and both
\* notifications have run
C8_Witness ==
    /\ phase = "idle"
    /\ on # ctorInitialOn
    /\ Len(notes) >= 1
    /\ clicks >= 1
    /\ \/ consumed.rendered
       \/ Len(NotesOf("onReset")) >= 1

C10_ConsumersSeeState ==
    (variant \in {"provider", "hoc"} /\ consumed.rendered
        /\ "toggle" \in Range(consumed.path))
        => /\ ~consumed.threw
           /\ consumed.args = <<Some(StateValue)>>

====
